---- MODULE Spec2Model ----
(***************************************************************************)
(* A model of contribs.py: the GraphQL client (Client.query and            *)
(* Client.get_contributions) and the contribution tabulator                *)
(* (ContribTabulator).                                                     *)
(*                                                                         *)
(* Durations are counted in hundredths of a second, so that the backoff    *)
(* factor 1.25 is the integer 125 and every delay the code can compute     *)
(* (1.25 * 2**i is exact in binary floating point) is an integer.          *)
(***************************************************************************)
EXTENDS Integers, Sequences, FiniteSets, TLC

(***************************************************************************)
(* Program constants (contribs.py lines 32-37).                            *)
(***************************************************************************)
MAX_RETRIES == 5
RETRY_STATUSES == {500, 502, 503, 504}
\* 1.25 seconds, in hundredths of a second
BACKOFF_FACTOR == 125
\* seconds
MAX_BACKOFF == 120
REPO_QTY_GUESS == 10

(***************************************************************************)
(* Bounds of the model.                                                    *)
(***************************************************************************)
\* the server holds between 0 and MaxCount repositories for the window
MaxCount == 12
\* attempt indices 0..MaxIndex are given to the backoff expression
MaxIndex == 9
\* the tabulator is given the dates 1..NumDates
NumDates == 3
\* the tabulator's add is called at most MaxAdds times
MaxAdds == 3
\* to_table is called at most MaxRenders times between two add calls
MaxRenders == 2
\* iterdates is given start and end dates in 0..MaxDay
MaxDay == 4
\* main is run with --days in 0..MaxDays
MaxDays == 2

(***************************************************************************)
(* The remote side.  The server holds the repositories 1..n for the        *)
(* queried window; repository k has ServerCommits(k) commits.  A response  *)
(* is a status code and, for a success, a GraphQL body: either one with a  *)
(* non-empty `errors` field or one with the `data` payload.                *)
(***************************************************************************)
Statuses == {200, 404, 500, 501, 503}

ServerCommits(k) == (k % 3) + 1

Min(a, b) == IF a < b THEN a ELSE b

NoData ==
    [totalRepositoriesWithContributedCommits |-> -1,
     commitContributionsByRepository |-> <<>>]

\* What the server answers for QUERY when it holds n repositories: the
\* true count and at most maxRepositories rows.
ServerData(n, maxRepositories) ==
    [totalRepositoriesWithContributedCommits |-> n,
     commitContributionsByRepository |->
        [k \in 1..Min(maxRepositories, n) |->
            [nameWithOwner |-> k, totalCount |-> ServerCommits(k)]]]

\* requests.Response.ok: the status is below 400
Ok(status) == status < 400

\* The responses self.s.post can return for the request's variables.
Responses(n, v) ==
    {[status |-> s, errors |-> FALSE, data |-> NoData] :
        s \in {x \in Statuses : ~Ok(x)}}
    \cup {[status |-> s, errors |-> TRUE, data |-> NoData] :
        s \in {x \in Statuses : Ok(x)}}
    \cup {[status |-> s, errors |-> FALSE,
           data |-> ServerData(n, v.maxRepositories)] :
        s \in {x \in Statuses : Ok(x)}}

NoResponse == [status |-> 0, errors |-> FALSE, data |-> NoData]

(***************************************************************************)
(* Client.query: the pure parts.                                           *)
(***************************************************************************)
\* mutant: the delay grows from the next index
BackoffNextIndex(i) == Min(BACKOFF_FACTOR * 2^(i + 1), MAX_BACKOFF * 100)

\* mutant: the cap is not applied
BackoffUncapped(i) == BACKOFF_FACTOR * 2^i

\* delay = min(BACKOFF_FACTOR * 2**i, MAX_BACKOFF), in hundredths of a second
Backoff(i) == Min(BACKOFF_FACTOR * 2^i, MAX_BACKOFF * 100)

\* mutant: every server error is retried
IsRetryStatusAny5xx(status) == status >= 500

\* r.status_code in RETRY_STATUSES
IsRetryStatus(status) == status \in RETRY_STATUSES

\* mutant: one attempt too many
CanRetryOffByOne(i) == i < MAX_RETRIES

\* i + 1 < MAX_RETRIES
CanRetry(i) == i + 1 < MAX_RETRIES

\* mutant: the errors field is not looked at
HasErrorsIgnored(r) == FALSE

\* data.get("errors")
HasErrors(r) == r.errors

\* mutant: a GraphQL error is retried like a retryable status
ClassifyRetryGraphQL(r, i) ==
    IF IsRetryStatus(r.status) \/ (Ok(r.status) /\ HasErrors(r))
    THEN IF CanRetry(i) THEN "retry" ELSE "out_of_retries"
    ELSE IF ~Ok(r.status) THEN "not_ok" ELSE "return"

\* The branch of Client.query's loop body and tail that response r takes
\* at attempt index i.
Classify(r, i) ==
    IF IsRetryStatus(r.status)
    THEN IF CanRetry(i) THEN "retry" ELSE "out_of_retries"
    ELSE IF ~Ok(r.status) THEN "not_ok"
    ELSE IF HasErrors(r) THEN "graphql_error"
    ELSE "return"

(***************************************************************************)
(* Client.get_contributions: the pure parts.                               *)
(***************************************************************************)
\* mutant: the second query is made only above the guess plus one
NeedsSecondQueryLate(qty) == qty > REPO_QTY_GUESS + 1

\* real_qty > REPO_QTY_GUESS
NeedsSecondQuery(qty) == qty > REPO_QTY_GUESS

QueryVariables(maxRepositories) ==
    [from |-> "from_dt", to |-> "to_dt", maxRepositories |-> maxRepositories]

\* The dict comprehension of get_contributions: a later row of the same
\* name replaces an earlier one.
RowsToDict(rows) ==
    [name \in {rows[k].nameWithOwner : k \in DOMAIN rows} |->
        LET last == CHOOSE k \in DOMAIN rows :
                        /\ rows[k].nameWithOwner = name
                        /\ \A m \in DOMAIN rows :
                              rows[m].nameWithOwner = name => m <= k
        IN  rows[last].totalCount]

(***************************************************************************)
(* State.                                                                  *)
(***************************************************************************)
VARIABLES
    pc,         \* position in get_contributions / query
    server,     \* number of repositories the server holds for the window
    variables,  \* the variables of the query call in progress
    i,          \* query's attempt index
    resps,      \* the responses received by the query call, in order
    sleeps,     \* the delays slept by the query call, in order
    posts,      \* POSTs sent by the query call
    qresult,    \* how the query call ended
    calls,      \* the variables of every query call made, in order
    returned,   \* the payloads returned by the query calls, in order
    requests,   \* POSTs sent by the get_contributions call
    real_qty,   \* get_contributions' real_qty
    result,     \* how get_contributions ended
    arg_i, arg_j, delay_i, delay_j,  \* backoff: attempt indices and delays
    contribs,   \* ContribTabulator.contribs
    dates,      \* ContribTabulator.dates
    totals,     \* ContribTabulator.totals
    call,       \* the last add call: its date, and the caller's dict
                \* before and after the call
    n_adds,     \* add calls made
    passed,     \* for each date, the dict last passed to add for it
    table,      \* the grid of the last to_table call since the last add
    renders,    \* to_table calls since the last add
    it_start, it_end, it_tz,  \* iterdates' arguments
    it_d,       \* iterdates' d
    yielded,    \* the triples iterdates has yielded, in order
    it_pc,      \* iterdates: "idle", "run" or "done"
    m_pc,       \* position in main
    days,       \* main's --days
    session,    \* the client's requests.Session: "none", "open", "closed"
    opens,      \* sessions created
    closes,     \* calls of Client.__exit__ (self.s.close())
    printed,    \* the grid main has printed, <<>> when none
    m_requests, \* POSTs sent during the run of main
    m_error     \* the exception main ended with, "none" when none

vars == <<pc, server, variables, i, resps, sleeps, posts, qresult, calls,
          returned, requests, real_qty, result,
          arg_i, arg_j, delay_i, delay_j,
          contribs, dates, totals, call, n_adds, passed, table, renders,
          it_start, it_end, it_tz, it_d, yielded, it_pc,
          m_pc, days, session, opens, closes, printed, m_requests, m_error>>

iterVars == <<it_start, it_end, it_tz, it_d, yielded, it_pc>>

mainVars == <<m_pc, days, session, opens, closes, printed, m_requests,
              m_error>>

tabVars == <<contribs, dates, totals, call, n_adds, passed, table, renders>>

fetchVars == <<pc, server, variables, i, resps, sleeps, posts, qresult,
               calls, returned, requests, real_qty, result>>

backoffVars == <<arg_i, arg_j, delay_i, delay_j>>

Pending == [kind |-> "pending", response |-> NoResponse, data |-> NoData]

NoResult == [kind |-> "pending", response |-> NoResponse, value |-> <<>>]

InitFetch ==
    /\ pc = "start"
    /\ server \in 0..MaxCount
    /\ variables = QueryVariables(0)
    /\ i = 0
    /\ resps = <<>>
    /\ sleeps = <<>>
    /\ posts = 0
    /\ qresult = Pending
    /\ calls = <<>>
    /\ returned = <<>>
    /\ requests = 0
    /\ real_qty = -1
    /\ result = NoResult

InitBackoffIdle ==
    /\ arg_i = 0
    /\ arg_j = 0
    /\ delay_i = -1
    /\ delay_j = -1

\* ContribTabulator(): the three fields are empty
InitTab ==
    /\ contribs = <<>>
    /\ dates = {}
    /\ totals = <<>>
    /\ call = [d |-> 0, before |-> <<>>, after |-> <<>>]
    /\ n_adds = 0
    /\ passed = <<>>
    /\ table = <<>>
    /\ renders = 0

\* iterdates is not running
InitIterIdle ==
    /\ it_start = 0
    /\ it_end = 0
    /\ it_tz = "local"
    /\ it_d = 0
    /\ yielded = <<>>
    /\ it_pc = "idle"

\* main is not running
InitMainIdle ==
    /\ m_pc = "idle"
    /\ days = 0
    /\ session = "none"
    /\ opens = 0
    /\ closes = 0
    /\ printed = <<>>
    /\ m_requests = 0
    /\ m_error = "none"

Init ==
    InitFetch /\ InitBackoffIdle /\ InitTab /\ InitIterIdle /\ InitMainIdle

(***************************************************************************)
(* Client.query, one loop iteration per action.                            *)
(***************************************************************************)
\* mutant: the attempt index carries over from the previous query call
StartQueryKeepsAttempts(v) ==
    /\ variables' = v
    /\ calls' = Append(calls, v)
    /\ i' = i
    /\ resps' = <<>>
    /\ sleeps' = <<>>
    /\ posts' = 0
    /\ qresult' = Pending
    /\ pc' = "post"

\* Entry of a query call: i = 0.
StartQuery(v) ==
    /\ variables' = v
    /\ calls' = Append(calls, v)
    /\ i' = 0
    /\ resps' = <<>>
    /\ sleeps' = <<>>
    /\ posts' = 0
    /\ qresult' = Pending
    /\ pc' = "post"

\* raise APIException(r): nothing in get_contributions catches it.
Raise(r) ==
    /\ qresult' = [kind |-> "APIException", response |-> r, data |-> NoData]
    /\ result' = [kind |-> "APIException", response |-> r, value |-> <<>>]
    /\ pc' = "done"

\* The request is sent and response r arrives.
Post(r) ==
    /\ pc = "post"
    /\ r \in Responses(server, variables)
    /\ resps' = Append(resps, r)
    /\ posts' = posts + 1
    /\ requests' = requests + 1

\* A retryable status with attempts left: sleep(delay); i += 1; continue
SleepAndRetry ==
    \E r \in Responses(server, variables) :
        /\ Post(r)
        /\ Classify(r, i) = "retry"
        /\ sleeps' = Append(sleeps, Backoff(i))
        /\ i' = i + 1
        /\ UNCHANGED <<pc, server, variables, qresult, calls, returned,
                       real_qty, result>>

\* A retryable status with no attempt left
OutOfRetries ==
    \E r \in Responses(server, variables) :
        /\ Post(r)
        /\ Classify(r, i) = "out_of_retries"
        /\ Raise(r)
        /\ UNCHANGED <<server, variables, i, sleeps, calls, returned,
                       real_qty>>

\* Any other status that is not a success
NotOk ==
    \E r \in Responses(server, variables) :
        /\ Post(r)
        /\ Classify(r, i) = "not_ok"
        /\ Raise(r)
        /\ UNCHANGED <<server, variables, i, sleeps, calls, returned,
                       real_qty>>

\* A success whose body carries errors
GraphQLError ==
    \E r \in Responses(server, variables) :
        /\ Post(r)
        /\ Classify(r, i) = "graphql_error"
        /\ Raise(r)
        /\ UNCHANGED <<server, variables, i, sleeps, calls, returned,
                       real_qty>>

\* A success without errors: return r.json()["data"]
QueryReturn ==
    \E r \in Responses(server, variables) :
        /\ Post(r)
        /\ Classify(r, i) = "return"
        /\ qresult' = [kind |-> "return", response |-> r, data |-> r.data]
        /\ returned' = Append(returned, r.data)
        /\ pc' = IF Len(calls) = 1 THEN "real_qty" ELSE "build"
        /\ UNCHANGED <<server, variables, i, sleeps, calls, real_qty,
                       result>>

\* mutant: a transport failure is handled like a retryable status
TransportFailureRetried ==
    /\ pc = "post"
    /\ posts' = posts + 1
    /\ requests' = requests + 1
    /\ IF CanRetry(i)
       THEN /\ sleeps' = Append(sleeps, Backoff(i))
            /\ i' = i + 1
            /\ UNCHANGED <<pc, qresult, result>>
       ELSE /\ qresult' = [kind |-> "ConnectionError",
                           response |-> NoResponse, data |-> NoData]
            /\ result' = [kind |-> "ConnectionError",
                          response |-> NoResponse, value |-> <<>>]
            /\ pc' = "done"
            /\ UNCHANGED <<i, sleeps>>
    /\ UNCHANGED <<server, variables, resps, calls, returned, real_qty>>

\* self.s.post raises (connection error, timeout): no response is
\* obtained, and nothing in query or get_contributions catches the
\* exception.
TransportFailure ==
    /\ pc = "post"
    /\ posts' = posts + 1
    /\ requests' = requests + 1
    /\ qresult' = [kind |-> "ConnectionError", response |-> NoResponse,
                   data |-> NoData]
    /\ result' = [kind |-> "ConnectionError", response |-> NoResponse,
                  value |-> <<>>]
    /\ pc' = "done"
    /\ UNCHANGED <<server, variables, i, resps, sleeps, calls, returned,
                   real_qty>>

(***************************************************************************)
(* Client.get_contributions.                                               *)
(***************************************************************************)
\* The first query, with maxRepositories = REPO_QTY_GUESS
GetContributions ==
    /\ pc = "start"
    /\ StartQuery(QueryVariables(REPO_QTY_GUESS))
    /\ UNCHANGED <<server, returned, requests, real_qty, result>>

\* real_qty is read from the first payload; above the guess the query is
\* made again with maxRepositories = real_qty.
CheckRealQty ==
    /\ pc = "real_qty"
    /\ LET qty == returned[1].totalRepositoriesWithContributedCommits
       IN  /\ real_qty' = qty
           /\ IF NeedsSecondQuery(qty)
              THEN StartQuery(QueryVariables(qty))
              ELSE /\ pc' = "build"
                   /\ UNCHANGED <<variables, calls, i, resps, sleeps, posts,
                                  qresult>>
    /\ UNCHANGED <<server, returned, requests, result>>

\* The returned dict is built from the rows of `data`, the payload of the
\* last query call.
BuildResult ==
    /\ pc = "build"
    /\ result' = [kind |-> "return", response |-> NoResponse,
                  value |-> RowsToDict(
                      returned[Len(returned)].commitContributionsByRepository)]
    /\ pc' = "done"
    /\ UNCHANGED <<server, variables, i, resps, sleeps, posts, qresult,
                   calls, returned, requests, real_qty>>

\* The server's repositories for the window change while the call runs.
ServerChange ==
    /\ pc \notin {"build", "done"}
    /\ server' \in (0..MaxCount) \ {server}
    /\ UNCHANGED <<pc, variables, i, resps, sleeps, posts, qresult, calls,
                   returned, requests, real_qty, result>>

Next ==
    \/ (GetContributions /\ UNCHANGED <<backoffVars, tabVars, iterVars, mainVars>>)
    \/ (SleepAndRetry /\ UNCHANGED <<backoffVars, tabVars, iterVars, mainVars>>)
    \/ (OutOfRetries /\ UNCHANGED <<backoffVars, tabVars, iterVars, mainVars>>)
    \/ (NotOk /\ UNCHANGED <<backoffVars, tabVars, iterVars, mainVars>>)
    \/ (GraphQLError /\ UNCHANGED <<backoffVars, tabVars, iterVars, mainVars>>)
    \/ (QueryReturn /\ UNCHANGED <<backoffVars, tabVars, iterVars, mainVars>>)
    \/ (TransportFailure /\ UNCHANGED <<backoffVars, tabVars, iterVars, mainVars>>)
    \/ (CheckRealQty /\ UNCHANGED <<backoffVars, tabVars, iterVars, mainVars>>)
    \/ (BuildResult /\ UNCHANGED <<backoffVars, tabVars, iterVars, mainVars>>)
    \/ (ServerChange /\ UNCHANGED <<backoffVars, tabVars, iterVars, mainVars>>)

Spec == Init /\ [][Next]_vars

\* A step of the call itself.  The call is one sequential thread: as long
\* as it has not ended it takes its next step (a POST gets its response or
\* raises, a sleep returns), whatever the server does meanwhile.
FetchStep ==
    /\ \/ GetContributions
       \/ SleepAndRetry
       \/ OutOfRetries
       \/ NotOk
       \/ GraphQLError
       \/ QueryReturn
       \/ TransportFailure
       \/ CheckRealQty
       \/ BuildResult
    /\ UNCHANGED <<backoffVars, tabVars, iterVars, mainVars>>

SpecFair == Init /\ [][Next]_vars /\ WF_vars(FetchStep)

(***************************************************************************)
(* The backoff expression on its own: the delay for two attempt indices.   *)
(***************************************************************************)
InitBackoff ==
    /\ arg_i \in 0..MaxIndex
    /\ arg_j \in 0..MaxIndex
    /\ delay_i = -1
    /\ delay_j = -1

InitFetchIdle == InitFetch /\ server = 0

ComputeBackoff ==
    /\ delay_i = -1
    /\ delay_i' = Backoff(arg_i)
    /\ delay_j' = Backoff(arg_j)
    /\ UNCHANGED <<arg_i, arg_j>>

NextBackoff ==
    ComputeBackoff /\ UNCHANGED <<fetchVars, tabVars, iterVars, mainVars>>

InitBackoffSpec ==
    InitBackoff /\ InitFetchIdle /\ InitTab /\ InitIterIdle /\ InitMainIdle

SpecBackoff == InitBackoffSpec /\ [][NextBackoff]_vars

(***************************************************************************)
(* ContribTabulator.  Repositories and dates are numbered; a snapshot is   *)
(* a dict from some of the repositories to counts: a repository has its    *)
(* usual count or one of the counts of the two-day scenario.               *)
(***************************************************************************)
Repos == {1, 2}

\* the usual count of a repository
Counts == [r \in Repos |-> r]

Dates == 1..NumDates

\* the two days of the end-to-end scenario
ScenarioSnapshots == {(1 :> 4), (1 :> 2) @@ (2 :> 9)}

Snapshots ==
    {[r \in S |-> Counts[r]] : S \in SUBSET Repos} \cup ScenarioSnapshots

RECURSIVE SumValues(_)
\* sum(f.values())
SumValues(f) ==
    IF DOMAIN f = {} THEN 0
    ELSE LET k == CHOOSE x \in DOMAIN f : TRUE
         IN  f[k] + SumValues([x \in DOMAIN f \ {k} |-> f[x]])

\* mutant: the sum is taken after the known repositories were popped
AddTotalsAfterPop(t, d, snap) ==
    [dd \in DOMAIN t \cup {d} |->
        IF dd = d
        THEN SumValues([repo \in DOMAIN snap \ DOMAIN contribs |-> snap[repo]])
        ELSE t[dd]]

\* self.totals[d] = sum(contribs.values())
AddTotals(t, d, snap) ==
    [dd \in DOMAIN t \cup {d} |-> IF dd = d THEN SumValues(snap) ELSE t[dd]]

\* What the first loop of add leaves of the dict it was passed: every
\* repository already in self.contribs has been popped from it.
AddPopped(c, snap) == [repo \in DOMAIN snap \ DOMAIN c |-> snap[repo]]

\* mutant: a new repository is not backfilled
AddContribsNoBackfill(c, ds, d, snap) ==
    [repo \in DOMAIN c \cup DOMAIN snap |->
        IF repo \in DOMAIN c
        THEN [dd \in DOMAIN c[repo] \cup {d} |->
                IF dd = d
                THEN IF repo \in DOMAIN snap THEN snap[repo] ELSE 0
                ELSE c[repo][dd]]
        ELSE [dd \in {d} |-> snap[repo]]]

\* mutant: a new repository is backfilled with its count
AddContribsBackfillCount(c, ds, d, snap) ==
    [repo \in DOMAIN c \cup DOMAIN snap |->
        IF repo \in DOMAIN c
        THEN [dd \in DOMAIN c[repo] \cup {d} |->
                IF dd = d
                THEN IF repo \in DOMAIN snap THEN snap[repo] ELSE 0
                ELSE c[repo][dd]]
        ELSE [dd \in ds \cup {d} |-> snap[repo]]]

\* mutant: a known repository missing from the dict is dropped
AddContribsDropAbsent(c, ds, d, snap) ==
    [repo \in DOMAIN snap |->
        IF repo \in DOMAIN c
        THEN [dd \in DOMAIN c[repo] \cup {d} |->
                IF dd = d THEN snap[repo] ELSE c[repo][dd]]
        ELSE [dd \in ds \cup {d} |-> IF dd \in ds THEN 0 ELSE snap[repo]]]

\* mutant: a new repository is backfilled with 0 at the earlier dates
\* only, and with its count at the others
AddContribsBackfillLaterCount(c, ds, d, snap) ==
    [repo \in DOMAIN c \cup DOMAIN snap |->
        IF repo \in DOMAIN c
        THEN [dd \in DOMAIN c[repo] \cup {d} |->
                IF dd = d
                THEN IF repo \in DOMAIN snap THEN snap[repo] ELSE 0
                ELSE c[repo][dd]]
        ELSE [dd \in ds \cup {d} |->
                IF dd \in ds /\ dd < d THEN 0 ELSE snap[repo]]]

\* self.contribs after the two loops of add.  A repository already there
\* gets its count, or 0, at d.  A repository left in the dict gets the
\* row {d: count}, in which every date of self.dates is then set to 0.
AddContribs(c, ds, d, snap) ==
    [repo \in DOMAIN c \cup DOMAIN snap |->
        IF repo \in DOMAIN c
        THEN [dd \in DOMAIN c[repo] \cup {d} |->
                IF dd = d
                THEN IF repo \in DOMAIN snap THEN snap[repo] ELSE 0
                ELSE c[repo][dd]]
        ELSE [dd \in ds \cup {d} |->
                IF dd \in ds THEN 0 ELSE AddPopped(c, snap)[repo]]]

\* ContribTabulator.add(d, snap), called with the caller's dict snap
AddCall(d, snap) ==
    /\ totals' = AddTotals(totals, d, snap)
    /\ contribs' = AddContribs(contribs, dates, d, snap)
    /\ dates' = dates \cup {d}
    /\ call' = [d |-> d, before |-> snap, after |-> AddPopped(contribs, snap)]
    /\ n_adds' = n_adds + 1
    /\ passed' = [dd \in DOMAIN passed \cup {d} |->
                    IF dd = d THEN snap ELSE passed[dd]]
    /\ table' = <<>>
    /\ renders' = 0

Add ==
    /\ n_adds < MaxAdds
    /\ \E d \in Dates, snap \in Snapshots : AddCall(d, snap)

RECURSIVE SortedSeq(_)
\* sorted(S)
SortedSeq(S) ==
    IF S = {} THEN <<>>
    ELSE LET m == CHOOSE x \in S : \A y \in S : x <= y
         IN  <<m>> \o SortedSeq(S \ {m})

\* mutant: a zero is kept
OrNoneKeepsZero(v) == [none |-> FALSE, n |-> v]

\* v or None
OrNone(v) == IF v = 0 THEN [none |-> TRUE, n |-> 0] ELSE [none |-> FALSE, n |-> v]

\* The text Txtble shows for a cell: nothing for None, str(n) for an int.
CellText(c) == IF c.none THEN "" ELSE ToString(c.n)

\* mutant: the columns are not sorted by date
TableTextUnsorted(c, ds, t) ==
    LET dseq == [k \in 1..Cardinality(ds) |->
                    SortedSeq(ds)[Cardinality(ds) + 1 - k]]
        repos == SortedSeq(DOMAIN c)
        n == Len(dseq)
    IN  << <<"Repository">> \o [k \in 1..n |-> ToString(dseq[k])]
              \o <<"Total">> >>
        \o [r \in 1..Len(repos) |->
              <<ToString(repos[r])>>
              \o [k \in 1..n |-> CellText(OrNone(c[repos[r]][dseq[k]]))]
              \o <<ToString(SumValues(c[repos[r]]))>>]
        \o << <<"TOTAL">> \o [k \in 1..n |-> CellText(OrNone(t[dseq[k]]))]
              \o <<ToString(SumValues(t))>> >>

\* The grid of cell texts that to_table hands to Txtble: the header row,
\* one row per repository in sorted order, and the TOTAL row.
TableText(c, ds, t) ==
    LET dseq == SortedSeq(ds)
        repos == SortedSeq(DOMAIN c)
        n == Len(dseq)
    IN  << <<"Repository">> \o [k \in 1..n |-> ToString(dseq[k])]
              \o <<"Total">> >>
        \o [r \in 1..Len(repos) |->
              <<ToString(repos[r])>>
              \o [k \in 1..n |-> CellText(OrNone(c[repos[r]][dseq[k]]))]
              \o <<ToString(SumValues(c[repos[r]]))>>]
        \o << <<"TOTAL">> \o [k \in 1..n |-> CellText(OrNone(t[dseq[k]]))]
              \o <<ToString(SumValues(t))>> >>

\* mutant: to_table clears the totals it has shown
ToTableZeroesTotals ==
    /\ renders < MaxRenders
    /\ table' = TableText(contribs, dates, totals)
    /\ renders' = renders + 1
    /\ totals' = [d \in DOMAIN totals |-> 0]
    /\ UNCHANGED <<contribs, dates, call, n_adds, passed>>

\* ContribTabulator.to_table()
ToTable ==
    /\ renders < MaxRenders
    /\ table' = TableText(contribs, dates, totals)
    /\ renders' = renders + 1
    /\ UNCHANGED <<contribs, dates, totals, call, n_adds, passed>>

NextTab ==
    \/ (Add /\ UNCHANGED <<fetchVars, backoffVars, iterVars, mainVars>>)
    \/ (ToTable /\ UNCHANGED <<fetchVars, backoffVars, iterVars, mainVars>>)

InitTabSpec ==
    InitTab /\ InitFetchIdle /\ InitBackoffIdle /\ InitIterIdle
        /\ InitMainIdle

SpecTab == InitTabSpec /\ [][NextTab]_vars

(***************************************************************************)
(* iterdates.  Dates are day numbers; a datetime is a date, a time of day  *)
(* and a timezone.                                                         *)
(***************************************************************************)
Tzs == {"local", "UTC"}

\* datetime.combine(d, time(h, m, s), tz)
Combine(d, t, tz) == [date |-> d, time |-> t, tzinfo |-> tz]

\* (d, start_dt, end_dt)
Triple(d, tz) ==
    [d |-> d,
     start_dt |-> Combine(d, <<0, 0, 0>>, tz),
     end_dt |-> Combine(d, <<23, 59, 59>>, tz)]

\* mutant: the end date is left out
IterCondExclusive(d, end) == d < end

\* while d <= end
IterCond(d, end) == d <= end

\* iterdates(start, end, tz) is called
IterCall(start, end, tz) ==
    /\ it_start' = start
    /\ it_end' = end
    /\ it_tz' = tz
    /\ it_d' = start
    /\ yielded' = <<>>
    /\ it_pc' = "run"

\* yield (d, start_dt, end_dt); d += timedelta(days=1)
IterYield ==
    /\ it_pc = "run"
    /\ IterCond(it_d, it_end)
    /\ yielded' = Append(yielded, Triple(it_d, it_tz))
    /\ it_d' = it_d + 1
    /\ UNCHANGED <<it_start, it_end, it_tz, it_pc>>

\* the loop condition fails: the generator is exhausted
IterStop ==
    /\ it_pc = "run"
    /\ ~IterCond(it_d, it_end)
    /\ it_pc' = "done"
    /\ UNCHANGED <<it_start, it_end, it_tz, it_d, yielded>>

InitIter ==
    /\ it_start \in 0..MaxDay
    /\ it_end \in 0..MaxDay
    /\ it_tz \in Tzs
    /\ it_d = it_start
    /\ yielded = <<>>
    /\ it_pc = "run"

InitDatesSpec ==
    InitIter /\ InitFetchIdle /\ InitBackoffIdle /\ InitTab /\ InitMainIdle

NextDates ==
    \/ (IterYield /\ UNCHANGED <<fetchVars, backoffVars, tabVars, mainVars>>)
    \/ (IterStop /\ UNCHANGED <<fetchVars, backoffVars, tabVars, mainVars>>)

SpecDates == InitDatesSpec /\ [][NextDates]_vars

(***************************************************************************)
(* main.  Each day of the range is fetched with get_contributions (the     *)
(* actions above, one request at a time) and added to the tabulator; the   *)
(* table is rendered and printed after the `with` block.  The server holds *)
(* one of MainCounts repositories for a day's window.  The --highlight     *)
(* option only wraps lines of the printed text in colour codes and is left *)
(* out.                                                                    *)
(***************************************************************************)
MainCounts == {0, 2, 11}

\* date.today()
Today == MaxDays

Errors == {"APIException", "ConnectionError"}

\* Entry of a get_contributions call while the server holds n repositories
\* for the window.
GetContributionsEntry(n) ==
    /\ pc' = "start"
    /\ server' = n
    /\ variables' = QueryVariables(0)
    /\ i' = 0
    /\ resps' = <<>>
    /\ sleeps' = <<>>
    /\ posts' = 0
    /\ qresult' = Pending
    /\ calls' = <<>>
    /\ returned' = <<>>
    /\ requests' = 0
    /\ real_qty' = -1
    /\ result' = NoResult

InitMain ==
    /\ m_pc = "start"
    /\ days \in 0..MaxDays
    /\ session = "none"
    /\ opens = 0
    /\ closes = 0
    /\ printed = <<>>
    /\ m_requests = 0
    /\ m_error = "none"

InitMainSpec ==
    InitMain /\ InitFetchIdle /\ InitBackoffIdle /\ InitTab /\ InitIterIdle

\* The dates are computed, the tabulator and the client (with its
\* session) are created, and the `with` block is entered.
MainStart ==
    /\ m_pc = "start"
    /\ IterCall(Today - (days - 1), Today, "local")
    /\ session' = "open"
    /\ opens' = opens + 1
    /\ m_pc' = "loop"
    /\ UNCHANGED <<days, closes, printed, m_requests, m_error>>
    /\ UNCHANGED <<fetchVars, backoffVars, tabVars>>

\* The for loop takes the next day from iterdates and calls
\* client.get_contributions(from_dt, to_dt).
MainNextDay ==
    /\ m_pc = "loop"
    /\ IterYield
    /\ \E n \in MainCounts : GetContributionsEntry(n)
    /\ m_pc' = "fetch"
    /\ UNCHANGED <<days, session, opens, closes, printed, m_requests,
                   m_error>>
    /\ UNCHANGED <<backoffVars, tabVars>>

\* A step of get_contributions that sends a request
MainFetchPost(A) ==
    /\ m_pc = "fetch"
    /\ A
    /\ m_requests' = m_requests + 1
    /\ UNCHANGED <<m_pc, days, session, opens, closes, printed, m_error>>
    /\ UNCHANGED <<backoffVars, tabVars, iterVars>>

\* A step of get_contributions that sends none
MainFetchStep(A) ==
    /\ m_pc = "fetch"
    /\ A
    /\ UNCHANGED <<mainVars, backoffVars, tabVars, iterVars>>

\* mutant: every add is made under the first date of the range
MainAddFirstDate ==
    /\ m_pc = "fetch"
    /\ pc = "done"
    /\ result.kind = "return"
    /\ AddCall(yielded[1].d, result.value)
    /\ m_pc' = "loop"
    /\ UNCHANGED <<days, session, opens, closes, printed, m_requests,
                   m_error>>
    /\ UNCHANGED <<fetchVars, backoffVars, iterVars>>

\* get_contributions has returned: tbl.add(d, contribs)
MainAdd ==
    /\ m_pc = "fetch"
    /\ pc = "done"
    /\ result.kind = "return"
    /\ AddCall(yielded[Len(yielded)].d, result.value)
    /\ m_pc' = "loop"
    /\ UNCHANGED <<days, session, opens, closes, printed, m_requests,
                   m_error>>
    /\ UNCHANGED <<fetchVars, backoffVars, iterVars>>

\* mutant: the exception is swallowed and the loop goes on
MainRaiseSwallowed ==
    /\ m_pc = "fetch"
    /\ pc = "done"
    /\ result.kind \in Errors
    /\ m_pc' = "loop"
    /\ UNCHANGED <<days, session, opens, closes, printed, m_requests,
                   m_error>>
    /\ UNCHANGED <<fetchVars, backoffVars, tabVars, iterVars>>

\* mutant: the exception leaves main without closing the session
MainRaiseNoClose ==
    /\ m_pc = "fetch"
    /\ pc = "done"
    /\ result.kind \in Errors
    /\ m_error' = result.kind
    /\ m_pc' = "failed"
    /\ UNCHANGED <<days, session, opens, closes, printed, m_requests>>
    /\ UNCHANGED <<fetchVars, backoffVars, tabVars, iterVars>>

\* get_contributions has raised: the exception leaves the `with` block,
\* Client.__exit__ closes the session, and main ends with the exception.
MainRaise ==
    /\ m_pc = "fetch"
    /\ pc = "done"
    /\ result.kind \in Errors
    /\ session' = "closed"
    /\ closes' = closes + 1
    /\ m_error' = result.kind
    /\ m_pc' = "failed"
    /\ UNCHANGED <<days, opens, printed, m_requests>>
    /\ UNCHANGED <<fetchVars, backoffVars, tabVars, iterVars>>

\* iterdates is exhausted: the `with` block ends and Client.__exit__
\* closes the session.
MainLoopEnd ==
    /\ m_pc = "loop"
    /\ IterStop
    /\ session' = "closed"
    /\ closes' = closes + 1
    /\ m_pc' = "render"
    /\ UNCHANGED <<days, opens, printed, m_requests, m_error>>
    /\ UNCHANGED <<fetchVars, backoffVars, tabVars>>

\* s = tbl.to_table(); print(s)
MainPrint ==
    /\ m_pc = "render"
    /\ ToTable
    /\ printed' = TableText(contribs, dates, totals)
    /\ m_pc' = "done"
    /\ UNCHANGED <<days, session, opens, closes, m_requests, m_error>>
    /\ UNCHANGED <<fetchVars, backoffVars, iterVars>>

NextMain ==
    \/ MainStart
    \/ MainNextDay
    \/ MainFetchStep(GetContributions)
    \/ MainFetchPost(SleepAndRetry)
    \/ MainFetchPost(OutOfRetries)
    \/ MainFetchPost(NotOk)
    \/ MainFetchPost(GraphQLError)
    \/ MainFetchPost(QueryReturn)
    \/ MainFetchPost(TransportFailure)
    \/ MainFetchStep(CheckRealQty)
    \/ MainFetchStep(BuildResult)
    \/ MainAdd
    \/ MainRaise
    \/ MainLoopEnd
    \/ MainPrint

SpecMain == InitMainSpec /\ [][NextMain]_vars

(***************************************************************************)
(* Properties of Client.query.                                             *)
(***************************************************************************)
AllRetryable == \A k \in DOMAIN resps : resps[k].status \in RETRY_STATUSES

QueryOver == qresult.kind # "pending"

\* C1: when every response has a retryable status, the query call sends
\* exactly MAX_RETRIES requests and then raises APIException carrying the
\* last response; it never sends a sixth request and never returns a payload.
C1_RetryExhaustion ==
    /\ posts <= MAX_RETRIES
    /\ (AllRetryable /\ qresult.kind # "ConnectionError") =>
          /\ QueryOver <=> Len(resps) = MAX_RETRIES
          /\ qresult.kind # "return"
          /\ QueryOver =>
                /\ posts = MAX_RETRIES
                /\ qresult.kind = "APIException"
                /\ qresult.response = resps[MAX_RETRIES]
                /\ result.kind = "APIException"
                /\ result.response = resps[MAX_RETRIES]

C1_Witness ==
    /\ Len(resps) = 5
    /\ \A k \in 1..5 : resps[k].status = 503
    /\ qresult.kind = "APIException"
    /\ qresult.response.status = 503
    /\ posts = 5

\* C2: a success response whose body carries errors ends the query call at
\* that attempt with APIException, with no sleep after it and no further
\* request; as the first response it makes the call one request long.
C2_NoRetryOnGraphQLError ==
    \A k \in DOMAIN resps :
        (Ok(resps[k].status) /\ resps[k].errors) =>
            /\ k = Len(resps)
            /\ posts = k
            /\ Len(sleeps) = k - 1
            /\ qresult.kind = "APIException"
            /\ qresult.response = resps[k]
            /\ result.kind = "APIException"
            /\ pc = "done"

C2_Witness ==
    /\ Len(resps) = 1
    /\ resps[1].status = 200
    /\ resps[1].errors
    /\ posts = 1
    /\ sleeps = <<>>
    /\ qresult.kind = "APIException"

\* C3: a non-success status outside the retryable set ends the query call
\* at the attempt it arrives at, with APIException carrying that response,
\* no sleep after it and no further request.
C3_NoRetryOnOtherStatus ==
    \A k \in DOMAIN resps :
        (~Ok(resps[k].status) /\ resps[k].status \notin RETRY_STATUSES) =>
            /\ k = Len(resps)
            /\ posts = k
            /\ Len(sleeps) = k - 1
            /\ qresult.kind = "APIException"
            /\ qresult.response = resps[k]
            /\ result.kind = "APIException"
            /\ pc = "done"

C3_Witness ==
    /\ Len(resps) = 3
    /\ resps[3].status = 501
    /\ posts = 3
    /\ Len(sleeps) = 2
    /\ qresult.kind = "APIException"
    /\ qresult.response.status = 501

\* The first response whose status is not retryable is a success without
\* errors.
Succeeds(k) ==
    /\ k \in DOMAIN resps
    /\ k <= MAX_RETRIES
    /\ \A m \in 1..(k - 1) : resps[m].status \in RETRY_STATUSES
    /\ resps[k].status \notin RETRY_STATUSES
    /\ Ok(resps[k].status)
    /\ ~resps[k].errors

\* C4: the query call returns a payload exactly when the first response
\* with a non-retryable status is a success carrying no errors, and the
\* payload is that response's data; every other finished call that
\* obtained responses raised APIException.
C4_OutcomeByFirstNonRetryable ==
    /\ (qresult.kind = "return") <=> (\E k \in DOMAIN resps : Succeeds(k))
    /\ \A k \in DOMAIN resps :
          Succeeds(k) => /\ qresult.data = resps[k].data
                         /\ returned[Len(returned)] = resps[k].data
    /\ (QueryOver /\ qresult.kind # "ConnectionError"
            /\ ~(\E k \in DOMAIN resps : Succeeds(k))) =>
          qresult.kind = "APIException"

C4_Witness ==
    /\ Len(resps) = 3
    /\ resps[1].status = 500
    /\ resps[2].status = 503
    /\ resps[3].status = 200
    /\ ~resps[3].errors
    /\ qresult.kind = "return"
    /\ qresult.data.totalRepositoriesWithContributedCommits = 3

\* C5 as stated: a transport failure is retried while attempts remain, so
\* the call fails on one only at the attempt cap.
C5_TransportFailureRetriedToCap ==
    qresult.kind = "ConnectionError" => posts = MAX_RETRIES

\* C5 amended: a transport failure is not retried.  A POST that obtained
\* no response is the call's last one: the call has failed with the
\* transport exception, with no sleep after it and no further request.
C5_TransportFailurePropagates ==
    /\ posts - Len(resps) \in {0, 1}
    /\ posts > Len(resps) =>
          /\ pc = "done"
          /\ qresult.kind = "ConnectionError"
          /\ result.kind = "ConnectionError"
          /\ Len(sleeps) = Len(resps)
    /\ qresult.kind = "ConnectionError" => posts = Len(resps) + 1

C5_Witness ==
    /\ qresult.kind = "ConnectionError"
    /\ Len(resps) = 2
    /\ posts = 3
    /\ Len(sleeps) = 2
    /\ pc = "done"

\* C6: the sleeps of one query call are, in order, 1.25, 2.5, 5 and 10
\* seconds: the sleep after the failed attempt with index k - 1 is the
\* k-th of these, whatever the statuses and in the second query call as in
\* the first.
C6_BackoffSequence ==
    /\ Len(sleeps) = i
    /\ Len(sleeps) <= 4
    /\ \A k \in DOMAIN sleeps : sleeps[k] = <<125, 250, 500, 1000>>[k]

C6_Witness ==
    /\ Len(calls) = 2
    /\ sleeps = <<125, 250, 500, 1000>>
    /\ resps[1].status = 500
    /\ resps[2].status = 503

\* C7: the backoff delay is monotonic in the attempt index and never
\* above 120 seconds.
C7_BackoffMonotonicCapped ==
    delay_i # -1 =>
        /\ arg_i < arg_j => delay_i <= delay_j
        /\ delay_i <= 12000
        /\ delay_j <= 12000

C7_Witness ==
    /\ arg_i = 6
    /\ arg_j = 8
    /\ delay_i = 8000
    /\ delay_j = 12000

(***************************************************************************)
(* Properties of Client.get_contributions.                                 *)
(***************************************************************************)
\* value maps each row's name to its count and nothing else
IsDictOfRows(value, rows) ==
    /\ DOMAIN value = {rows[k].nameWithOwner : k \in DOMAIN rows}
    /\ \A k \in DOMAIN rows : value[rows[k].nameWithOwner] = rows[k].totalCount

\* C8: the first query asks for 10 repositories.  Once the reported count
\* is read: a count of at most 10 means one query call, whose rows are the
\* result (none for a count of 0); a larger count means two query calls,
\* the second with the same variables but maxRepositories = the count, and
\* the result is built from the second payload's rows.
C8_AdaptiveFetch ==
    /\ Len(calls) <= 2
    /\ Len(calls) >= 1 =>
          calls[1] = [from |-> "from_dt", to |-> "to_dt",
                      maxRepositories |-> 10]
    /\ (Len(returned) >= 1 /\ pc # "real_qty") =>
          LET qty == returned[1].totalRepositoriesWithContributedCommits
          IN  IF qty <= 10
              THEN /\ Len(calls) = 1
                   /\ Len(returned) = 1
                   /\ result.kind = "return" =>
                         /\ IsDictOfRows(result.value,
                               returned[1].commitContributionsByRepository)
                         /\ qty = 0 => result.value = <<>>
              ELSE /\ Len(calls) = 2
                   /\ calls[2] = [calls[1] EXCEPT !.maxRepositories = qty]
                   /\ result.kind = "return" =>
                         /\ Len(returned) = 2
                         /\ IsDictOfRows(result.value,
                               returned[2].commitContributionsByRepository)
    /\ result.kind = "return" => Len(returned) >= 1

C8_Witness ==
    /\ result.kind = "return"
    /\ Len(calls) = 2
    /\ real_qty = 11
    /\ calls[2].maxRepositories = 11
    /\ Len(returned[1].commitContributionsByRepository) = 10
    /\ DOMAIN result.value = 1..11

\* C9: the returned snapshot has one entry for every repository the server
\* held at the time of the last query.
C9_SnapshotNeverTruncated ==
    result.kind = "return" =>
        Cardinality(DOMAIN result.value) =
            returned[Len(returned)].totalRepositoriesWithContributedCommits

(***************************************************************************)
(* Properties of ContribTabulator.                                         *)
(***************************************************************************)
\* C10: after every add call, each repository's row has an entry for
\* exactly the dates of `dates`.
C10_NoGaps ==
    \A repo \in DOMAIN contribs : DOMAIN contribs[repo] = dates

C10_Witness ==
    /\ n_adds = 3
    /\ dates = {1, 2, 3}
    /\ DOMAIN contribs = {1, 2}
    /\ call.d = 3
    /\ call.before = (2 :> 2)
    /\ contribs[1] = (1 :> 1) @@ (2 :> 0) @@ (3 :> 0)
    /\ contribs[2] = (1 :> 0) @@ (2 :> 0) @@ (3 :> 2)

\* C11: after add was called once for each of a set of distinct dates, the
\* cell of an observed repository and a known date holds the count of the
\* repository in the dict passed for that date, and 0 when that dict did
\* not mention the repository.
C11_MatrixContents ==
    n_adds = Cardinality(dates) =>
        /\ DOMAIN contribs = UNION {DOMAIN passed[d] : d \in dates}
        /\ \A e \in DOMAIN contribs, d \in dates :
              contribs[e][d] =
                  IF e \in DOMAIN passed[d] THEN passed[d][e] ELSE 0

C11_Witness ==
    /\ n_adds = 2
    /\ call.d = 2
    /\ passed = (1 :> (1 :> 1)) @@ (2 :> (2 :> 2))
    /\ contribs[1] = (1 :> 1) @@ (2 :> 0)
    /\ contribs[2] = (1 :> 0) @@ (2 :> 2)

\* C12: totals holds, for every date, the sum of the dict last passed to
\* add for that date, whichever repositories were known at that call; an
\* add for one date leaves the totals of the other dates as they were.
C12_TotalsAreSnapshotSums ==
    /\ DOMAIN totals = dates
    /\ \A d \in dates : totals[d] = SumValues(passed[d])

C12_Witness ==
    /\ n_adds = 2
    /\ call.d = 2
    /\ call.before = (1 :> 1) @@ (2 :> 2)
    /\ call.after = (2 :> 2)
    /\ totals = (1 :> 1) @@ (2 :> 3)

\* C13: an add call never removes a repository from contribs or a date
\* from dates, and gives a known repository that the dict does not mention
\* the entry 0 for the date.
C13_MonotonicExplicitZero ==
    [][/\ DOMAIN contribs \subseteq DOMAIN contribs'
       /\ dates \subseteq dates'
       /\ n_adds' # n_adds =>
            \A e \in DOMAIN contribs :
                e \notin DOMAIN call'.before =>
                    /\ call'.d \in DOMAIN contribs'[e]
                    /\ contribs'[e][call'.d] = 0]_vars

C13_Witness ==
    /\ n_adds = 2
    /\ call.d = 2
    /\ call.before = (2 :> 2)
    /\ DOMAIN contribs = {1, 2}
    /\ contribs[1] = (1 :> 1) @@ (2 :> 0)

\* the sum of the column of date d of the matrix
ColumnSum(d) == SumValues([e \in DOMAIN contribs |-> contribs[e][d]])

\* the sum of all cells of the matrix
MatrixSum == SumValues([e \in DOMAIN contribs |-> SumValues(contribs[e])])

\* C14: in the grid of to_table, a repository row's Total is the sum of
\* the row, a per-date cell of the TOTAL row is the sum of that date's
\* column of the matrix, and the grand total is the sum of all cells.
C14_RenderTotalsAreMatrixSums ==
    renders > 0 =>
        LET dseq == SortedSeq(dates)
            repos == SortedSeq(DOMAIN contribs)
            n == Len(dseq)
            last == Len(repos) + 2
        IN  /\ \A r \in 1..Len(repos) :
                  table[r + 1][n + 2] = ToString(SumValues(contribs[repos[r]]))
            /\ \A k \in 1..n :
                  table[last][k + 1] =
                      IF ColumnSum(dseq[k]) = 0 THEN ""
                      ELSE ToString(ColumnSum(dseq[k]))
            /\ table[last][n + 2] = ToString(MatrixSum)

\* the value shown in row r (1 = first repository row), column k
\* (1 = first date, Len + 1 = Total) of the grid
ShownValue(r, k) ==
    LET dseq == SortedSeq(dates)
        repos == SortedSeq(DOMAIN contribs)
    IN  IF r <= Len(repos)
        THEN IF k <= Len(dseq) THEN contribs[repos[r]][dseq[k]]
             ELSE SumValues(contribs[repos[r]])
        ELSE IF k <= Len(dseq) THEN totals[dseq[k]]
             ELSE SumValues(totals)

\* C15 as stated: every cell of the grid with value 0 is blank, in the
\* per-date columns and in the Total column.
C15_EveryZeroCellBlank ==
    renders > 0 =>
        \A r \in 1..(Cardinality(DOMAIN contribs) + 1),
           k \in 1..(Cardinality(dates) + 1) :
            ShownValue(r, k) = 0 => table[r + 1][k + 1] = ""

\* C15 amended: a per-date cell (of a repository row or of the TOTAL row)
\* is blank when its value is 0 and the text of n when its value is a
\* positive n; a cell of the Total column is always the text of its value,
\* "0" for the value 0.
C15_ZeroSuppression ==
    renders > 0 =>
        \A r \in 1..(Cardinality(DOMAIN contribs) + 1),
           k \in 1..(Cardinality(dates) + 1) :
            table[r + 1][k + 1] =
                IF k <= Cardinality(dates) /\ ShownValue(r, k) = 0 THEN ""
                ELSE ToString(ShownValue(r, k))

C15_Witness ==
    /\ renders > 0
    /\ dates = {1, 2}
    /\ table = << <<"Repository", "1", "2", "Total">>,
                  <<"1", "1", "", "1">>,
                  <<"2", "", "", "0">>,
                  <<"TOTAL", "1", "", "1">> >>

\* C16: a to_table call leaves contribs, dates and totals as they were,
\* and a call that follows another with no add between them produces the
\* same grid.
C16_RenderReadOnly ==
    [][renders' = renders + 1 =>
          /\ contribs' = contribs
          /\ dates' = dates
          /\ totals' = totals
          /\ renders > 0 => table' = table]_vars

C16_Witness ==
    /\ renders = 2
    /\ n_adds = 2
    /\ dates = {1, 2}
    /\ totals = (1 :> 3) @@ (2 :> 1)
    /\ table[4] = <<"TOTAL", "3", "1", "4">>

\* C17: the grid has the header row, one row per repository and the TOTAL
\* row last; the date columns are in ascending date order and the
\* repository rows in ascending order of the identifier.  After the dict
\* {1: 4} for day 1 and {1: 2, 2: 9} for day 2 the grid is
\* 1 [4, 2] 6; 2 [blank, 9] 9; TOTAL [4, 11] 15.
C17_RenderLayout ==
    renders > 0 =>
        LET n == Cardinality(dates)
            m == Cardinality(DOMAIN contribs)
        IN  /\ Len(table) = m + 2
            /\ \A r \in 1..(m + 2) : Len(table[r]) = n + 2
            /\ table[1][1] = "Repository"
            /\ table[1][n + 2] = "Total"
            /\ table[m + 2][1] = "TOTAL"
            /\ \E f \in [1..n -> dates] :
                  /\ \A a, b \in 1..n : a < b => f[a] < f[b]
                  /\ \A k \in 1..n : table[1][k + 1] = ToString(f[k])
            /\ \E g \in [1..m -> DOMAIN contribs] :
                  /\ \A a, b \in 1..m : a < b => g[a] < g[b]
                  /\ \A r \in 1..m : table[r + 1][1] = ToString(g[r])
            /\ (/\ n_adds = 2
                /\ call.d = 2
                /\ passed = (1 :> (1 :> 4)) @@ (2 :> ((1 :> 2) @@ (2 :> 9)))) =>
                  table = << <<"Repository", "1", "2", "Total">>,
                             <<"1", "4", "2", "6">>,
                             <<"2", "", "9", "9">>,
                             <<"TOTAL", "4", "11", "15">> >>

C17_Witness ==
    /\ renders = 1
    /\ n_adds = 2
    /\ call.d = 2
    /\ passed = (1 :> (1 :> 4)) @@ (2 :> ((1 :> 2) @@ (2 :> 9)))
    /\ table[2] = <<"1", "4", "2", "6">>
    /\ table[3] = <<"2", "", "9", "9">>
    /\ table[4] = <<"TOTAL", "4", "11", "15">>

(***************************************************************************)
(* Properties of iterdates.                                                *)
(***************************************************************************)
\* C18: iterdates yields one triple per day of [start, end], in order and
\* one day apart, end - start + 1 of them (none when start > end), and
\* then stops; each triple's window runs from 00:00:00 to 23:59:59 of its
\* own date in tz.
C18_IterDates ==
    /\ \A k \in DOMAIN yielded :
          /\ yielded[k].d = it_start + k - 1
          /\ yielded[k].d <= it_end
          /\ yielded[k].start_dt =
                [date |-> yielded[k].d, time |-> <<0, 0, 0>>, tzinfo |-> it_tz]
          /\ yielded[k].end_dt =
                [date |-> yielded[k].d, time |-> <<23, 59, 59>>,
                 tzinfo |-> it_tz]
    /\ it_pc = "done" =>
          Len(yielded) = IF it_start > it_end THEN 0
                         ELSE it_end - it_start + 1

C18_Witness ==
    /\ it_pc = "done"
    /\ it_start = 1
    /\ it_end = 3
    /\ it_tz = "UTC"
    /\ Len(yielded) = 3
    /\ yielded[3].d = 3
    /\ yielded[3].end_dt.time = <<23, 59, 59>>

(***************************************************************************)
(* Properties of main.                                                     *)
(***************************************************************************)
\* C19: once a day's fetch has failed, main sends no further request,
\* fetches no later day, renders and prints nothing and ends with the
\* error; a table is printed only when the fetch of every day succeeded.
C19_AllOrNothing ==
    /\ [](/\ (m_pc # "start" /\ result.kind \in Errors) =>
                /\ m_pc \in {"fetch", "failed"}
                /\ printed = <<>>
                /\ renders = 0
                /\ Len(yielded) = n_adds + 1
          /\ m_pc = "failed" =>
                /\ result.kind \in Errors
                /\ m_error = result.kind
          /\ printed # <<>> =>
                /\ m_pc = "done"
                /\ m_error = "none"
                /\ n_adds = days
                /\ Len(yielded) = days)
    /\ [][m_pc = "failed" =>
            /\ m_requests' = m_requests
            /\ printed' = printed
            /\ m_pc' = "failed"]_vars

C19_Witness ==
    /\ m_pc = "failed"
    /\ days = 2
    /\ n_adds = 1
    /\ Len(yielded) = 2
    /\ m_error = "APIException"
    /\ printed = <<>>
    /\ m_requests >= 2

\* C20: one session is created, before any request; every request is sent
\* while it is open; it is closed exactly once when main leaves the `with`
\* block, after the last day's fetch as well as when a fetch raised.
C20_SessionLifetime ==
    /\ [](/\ opens <= 1
          /\ closes <= 1
          /\ m_requests > 0 => opens = 1
          /\ m_pc \in {"loop", "fetch"} =>
                /\ session = "open"
                /\ closes = 0
          /\ m_pc \in {"render", "done", "failed"} =>
                /\ session = "closed"
                /\ opens = 1
                /\ closes = 1)
    /\ [][m_requests' # m_requests =>
            /\ session = "open"
            /\ session' = "open"]_vars

C20_Witness ==
    /\ m_pc = "failed"
    /\ m_error = "ConnectionError"
    /\ session = "closed"
    /\ closes = 1
    /\ m_requests = 3

\* C21: main drives the days one after the other.  A request is sent only
\* for the day last taken from iterdates, while every earlier day has been
\* fetched and added; the next day is taken only when the fetch of the
\* current one is over and its dict was added; add is called once per
\* date, in increasing date order, with the dict the fetch of that date
\* just returned; to_table is called once, after the last add.
C21_SequentialDriving ==
    /\ [](/\ m_pc = "fetch" => Len(yielded) = n_adds + 1
          /\ m_pc \in {"loop", "render", "done"} => Len(yielded) = n_adds
          /\ n_adds <= Len(yielded)
          /\ dates = {yielded[k].d : k \in 1..n_adds}
          /\ Cardinality(dates) = n_adds
          /\ renders <= 1
          /\ m_pc = "done" => (renders = 1 /\ n_adds = days)
          /\ m_pc # "done" => renders = 0)
    /\ [][/\ m_requests' # m_requests =>
                /\ m_pc = "fetch"
                /\ Len(yielded) = n_adds + 1
                /\ yielded' = yielded
                /\ n_adds' = n_adds
          /\ yielded' # yielded =>
                /\ Len(yielded) = n_adds
                /\ Len(yielded) > 0 => (pc = "done" /\ result.kind = "return")
                /\ m_requests' = m_requests
          /\ n_adds' # n_adds =>
                /\ n_adds' = n_adds + 1
                /\ pc = "done"
                /\ result.kind = "return"
                /\ call'.d = yielded[Len(yielded)].d
                /\ call'.before = result.value
                /\ \A e \in dates : e < call'.d
                /\ m_requests' = m_requests
          /\ renders' # renders =>
                /\ renders' = 1
                /\ it_pc = "done"
                /\ n_adds = days
                /\ n_adds' = n_adds]_vars

C21_Witness ==
    /\ m_pc = "done"
    /\ days = 2
    /\ n_adds = 2
    /\ dates = {Today - 1, Today}
    /\ renders = 1
    /\ Len(calls) = 2
    /\ Len(sleeps) > 0
    /\ m_requests >= 4

(***************************************************************************)
(* Further properties of ContribTabulator.add.                             *)
(***************************************************************************)
RECURSIVE AddInOrder(_, _)
\* the three fields after add(d, p[d]) was applied to an empty tabulator
\* for the dates of the sequence seq, first to last
AddInOrder(p, seq) ==
    IF seq = <<>>
    THEN [contribs |-> <<>>, dates |-> {}, totals |-> <<>>]
    ELSE LET st == AddInOrder(p, SubSeq(seq, 1, Len(seq) - 1))
             d == seq[Len(seq)]
         IN  [contribs |-> AddContribs(st.contribs, st.dates, d, p[d]),
              dates |-> st.dates \cup {d},
              totals |-> AddTotals(st.totals, d, p[d])]

\* C22: when the add calls made so far had pairwise distinct dates, in
\* whatever order, contribs, dates and totals (and a grid rendered from
\* them) are those obtained by adding the same dicts in increasing date
\* order.
C22_OrderIndependence ==
    n_adds = Cardinality(dates) =>
        LET st == AddInOrder(passed, SortedSeq(dates))
        IN  /\ contribs = st.contribs
            /\ dates = st.dates
            /\ totals = st.totals
            /\ renders > 0 => table = TableText(st.contribs, st.dates,
                                                st.totals)

\* three distinct dates, the earliest added last with a repository first
\* seen in that call, then rendered
C22_Witness ==
    /\ n_adds = 3
    /\ dates = {1, 2, 3}
    /\ call.d = 1
    /\ call.after # <<>>
    /\ passed[2] # <<>>
    /\ renders > 0

\* C23: add leaves the dict held by its caller as it was.
C23_CallerSnapshotUnchanged ==
    call.after = call.before

(***************************************************************************)
(* Requests and sleeps of a get_contributions call.                        *)
(***************************************************************************)
\* C24: a query call sends at most MAX_RETRIES requests; every request
\* but the last is followed by exactly one sleep, the last by none; the
\* attempt index starts at 0 in every query call, so the second query call
\* of get_contributions has the full budget again and the whole call sends
\* at most 2 * MAX_RETRIES requests; and the call ends.
C24_BoundedRequests ==
    /\ [](/\ posts <= MAX_RETRIES
          /\ i = Len(sleeps)
          /\ Len(calls) <= 2
          /\ requests <= 2 * MAX_RETRIES
          /\ pc = "post" => (Len(sleeps) = posts /\ posts < MAX_RETRIES)
          /\ QueryOver => Len(sleeps) = posts - 1
          /\ pc = "done" => QueryOver)
    /\ [][sleeps' # sleeps =>
            \/ sleeps' = <<>> /\ posts' = 0 /\ i' = 0
            \/ /\ Len(sleeps') = Len(sleeps) + 1
               /\ posts' = posts + 1
               /\ pc' = "post"]_vars
    /\ <>(pc = "done")

\* both query calls use all their attempts
C24_Witness ==
    /\ pc = "done"
    /\ Len(calls) = 2
    /\ requests = 2 * MAX_RETRIES
    /\ posts = MAX_RETRIES
    /\ Len(sleeps) = MAX_RETRIES - 1

\* C25: an add call for a date already in dates replaces the column of
\* that date by the dict passed: afterwards a repository of the dict, one
\* first seen in this call included, has its count there and every other
\* repository 0, and totals holds the sum of the column.
C25_ReAddReplacesColumn ==
    [][(n_adds' = n_adds + 1 /\ call'.d \in dates) =>
          LET d == call'.d
              s == call'.before
          IN  /\ DOMAIN s \subseteq DOMAIN contribs'
              /\ \A e \in DOMAIN contribs' :
                    contribs'[e][d] = IF e \in DOMAIN s THEN s[e] ELSE 0
              /\ totals'[d] =
                    SumValues([e \in DOMAIN contribs' |-> contribs'[e][d]])]_vars

====
